---------------------------- MODULE Spec2Model ----------------------------
(***************************************************************************)
(* A model of src/main.ts of contentful-clean-space: main(), the entry     *)
(* deletion loop deleteEntries() with its recursive procedure              *)
(* unpublishAndDeleteEntry(), and the content type loop                    *)
(* deleteContentTypes() with unpublishAndDeleteContentType().              *)
(*                                                                         *)
(* The Contentful backend is the list of live entries (in listing order)   *)
(* and the list of live content types.  Every remote call is issued by the *)
(* synchronous code that runs up to an await, and answered by a separate   *)
(* action, so the concurrent procedures of one page interleave at their    *)
(* awaits exactly as promises do on the JavaScript event loop.             *)
(***************************************************************************)
EXTENDS Integers, Sequences, FiniteSets, TLC

\* ------------------------------------------------------------- bounds --
\* Most entries the environment holds when the run starts.
MaxEntries == 3
\* Largest --batch-size.
MaxBatch == 2
\* Number of content types of the environment.
MaxSchemas == 2
\* An input deviates from the plain run (draft entries without relation
\* fields, no list file, a backend that answers every call for an existing
\* target, --yes, no --content-types, no --content-type) in single points:
\* one reference, one non-draft entry, one identifier in the list file, ...
\* Init admits every input with at most this many deviations.
MaxDeviations == 2
\* Most entries and largest --batch-size of the plain pagination runs.
MaxPagingEntries == 12
MaxPagingBatch == 5

\* ---------------------------------------------------------- utilities --
Min(a, b) == IF a < b THEN a ELSE b

RECURSIVE SubsetsUpTo(_, _)
\* The subsets of S with at most k elements.
SubsetsUpTo(S, k) ==
    IF k <= 0 THEN {{}}
    ELSE LET R == SubsetsUpTo(S, k - 1)
         IN  R \cup {T \cup {x} : T \in R, x \in S}

RECURSIVE SortedSeq(_)
\* The elements of a set of integers, ascending.
SortedSeq(S) ==
    IF S = {} THEN <<>>
    ELSE LET m == CHOOSE x \in S : \A y \in S : x <= y
         IN  <<m>> \o SortedSeq(S \ {m})

Range(s) == {s[i] : i \in 1..Len(s)}

\* The sequence s without its elements equal to x.
Without(s, x) == SelectSeq(s, LAMBDA y : y # x)

RECURSIVE CountTrue(_)
CountTrue(s) ==
    IF s = <<>> THEN 0
    ELSE (IF Head(s) THEN 1 ELSE 0) + CountTrue(Tail(s))


\* -------------------------------------------------------------- state --
VARIABLES
    argv,               \* the parsed command line and the two list files
    entryOf,            \* id -> the entry as the backend serves it (sys, fields)
    flaky,              \* whether the backend may fail a call on an existing target
    liveEntries,        \* the entries of the environment, in listing order
    liveContentTypes,   \* the content types of the space, in listing order
    publishedTypes,     \* the content types that are published
    pc,                 \* where main() stands
    offset,             \* deleteEntries: let offset
    totalEntries,       \* deleteEntries: let totalEntries
    promises,           \* deleteEntries: the page's unpublishAndDeleteEntry calls
    totalContentTypes,  \* deleteContentTypes: let totalContentTypes
    typePromises,       \* deleteContentTypes: the page's procedures
    deleteCalls,        \* history: id -> entry.delete() calls issued on it
    handed,             \* history: id -> page-level procedures started on it
    exits,              \* history: one record per returned procedure invocation
    typeExits,          \* history: one record per settled content type procedure
    declined,           \* history: the confirmation answered no, if any
    destructive         \* history: the kinds of unpublish/delete calls issued

vars == <<argv, entryOf, flaky, liveEntries, liveContentTypes, publishedTypes,
          pc, offset, totalEntries, promises, totalContentTypes, typePromises,
          deleteCalls, handed, exits, typeExits, declined, destructive>>

inputs == <<argv, entryOf, flaky>>
entryLoop == <<offset, totalEntries, promises>>
typeLoop == <<totalContentTypes, typePromises>>
entryHistory == <<deleteCalls, handed, exits>>

Ids == DOMAIN entryOf
SchemaIds == 1..MaxSchemas

\* ------------------------------------------------------------ backend --
\* sys.publishedVersion is set for a published entry, modified since or not.
isPublished(e) == entryOf[e].state \in {"published", "changed"}
\* Published, and modified since the last publish.
isUpdated(e) == entryOf[e].state = "changed"

\* getEntries({content_type: contentType}): the entries in scope, in order.
Scoped ==
    SelectSeq(liveEntries,
              LAMBDA e : argv.contentType = 0
                         \/ entryOf[e].contentType = argv.contentType)

\* The items of the listing with skip and limit.
\* A listing that ignores its limit.
PageUnlimited(list, skip, limit) == SubSeq(list, skip + 1, Len(list))

Page(list, skip, limit) ==
    SubSeq(list, skip + 1, Min(Len(list), skip + limit))

\* The answers the backend can give to a call on an entry: it fails for an
\* entry that is gone, and may fail for any other reason when flaky.
Answers(e) ==
    IF e \notin Range(liveEntries) THEN {FALSE}
    ELSE IF flaky THEN {TRUE, FALSE} ELSE {TRUE}

\* The environment a content type belongs to: 1..MaxSchemas are those of
\* the environment selected by --env, and when that is not master the
\* content types of master are MaxSchemas+1..2*MaxSchemas.
EnvOf(t) == IF t <= MaxSchemas THEN argv.env ELSE "master"

\* environment.getContentTypes: the content types of one environment.
EnvContentTypes(env) ==
    SelectSeq(liveContentTypes, LAMBDA t : EnvOf(t) = env)

\* selectedEnvironment.getContentTypes (line 189).
SelectedEnvironmentContentTypes == EnvContentTypes(argv.env)

\* contentfulSpace.getContentTypes: the space-scoped listing of the SDK,
\* which serves the content types of the space's master environment.
SpaceContentTypes == EnvContentTypes("master")

TypeAnswers(t) ==
    IF t \notin Range(liveContentTypes) THEN {FALSE}
    ELSE IF flaky THEN {TRUE, FALSE} ELSE {TRUE}

\* ------------------------------------------------------------- filter --
\* main's filter: the ignore list wins over the remove list.
Filter(e) ==
    IF argv.ignorelist.given THEN e \notin argv.ignorelist.ids
    ELSE IF argv.removelist.given THEN e \in argv.removelist.ids
    ELSE TRUE

\* ------------------------------------------- unpublishAndDeleteEntry --
\* One invocation: the entry, the relation field (1 seriesList, 2
\* episodeList) and index its loop stands at, the call it awaits, and what
\* it did so far.
NewFrame(e) ==
    [id |-> e, field |-> 1, idx |-> 0, call |-> "none",
     fetches |-> 0, failedChildren |-> 0, deleted |-> FALSE, threw |-> FALSE,
     ticks |-> 0]

\* A page-level call and what its synchronous code did since the last
\* await: the delete calls issued and the invocations that returned.
NewRun == [stack |-> <<>>, result |-> "pending", calls |-> <<>>, exits |-> {}]

Children(e, field) ==
    IF field = 1 THEN entryOf[e].seriesList ELSE entryOf[e].episodeList

\* A procedure that deletes whatever the publish state.
EligibleAlways(e) == TRUE

\* The eligibility rule as the specification words it: everything but
\* published-and-unmodified.
EligibleUnlessUnmodified(e) == ~(isPublished(e) /\ ~isUpdated(e))

\* Line 151.
Eligible(e) == ~isPublished(e) /\ ~isUpdated(e)

Top(x) == x.stack[Len(x.stack)]
SetTop(x, f) == [x EXCEPT !.stack[Len(x.stack)] = f]
Tick(x) == SetTop(x, [Top(x) EXCEPT !.ticks = @ + 1])

\* What an invocation did, kept when it returns val to the callers in rest
\* (parent 0: called by the page loop).
ExitRecord(f, rest, val) ==
    [id |-> f.id, depth |-> Len(rest),
     parent |-> IF rest = <<>> THEN 0 ELSE rest[Len(rest)].id,
     fetches |-> f.fetches,
     failedChildren |-> f.failedChildren, deleted |-> f.deleted,
     threw |-> f.threw, ticks |-> f.ticks, result |-> val]

\* An invocation that deletes the entry once the seriesList loop is done.
RunFrameSeriesOnly(x) ==
    LET f == Top(x)
    IN  IF f.idx < Len(Children(f.id, f.field))
        THEN SetTop(x, [f EXCEPT !.idx = @ + 1, !.call = "getEntry",
                                 !.fetches = @ + 1])
        ELSE [SetTop(x, [f EXCEPT !.call = "delete", !.deleted = TRUE])
                EXCEPT !.calls = Append(@, f.id)]

RECURSIVE RunFrame(_)
\* The top invocation runs on from the head of a for loop to its next
\* await: the getEntry of the next child, or entry.delete().
RunFrame(x) ==
    LET f == Top(x)
    IN  IF f.idx < Len(Children(f.id, f.field))
        THEN SetTop(x, [f EXCEPT !.idx = @ + 1, !.call = "getEntry",
                                 !.fetches = @ + 1])
        ELSE IF f.field = 1
        THEN RunFrame(SetTop(x, [f EXCEPT !.field = 2, !.idx = 0]))
        ELSE [SetTop(x, [f EXCEPT !.call = "delete", !.deleted = TRUE])
                EXCEPT !.calls = Append(@, f.id)]

\* The top invocation returns val: the page-level promise resolves, or the
\* caller (which ignores the value) goes on with its loop.
Return(x, val) ==
    LET f == Top(x)
        rest == SubSeq(x.stack, 1, Len(x.stack) - 1)
        y == [x EXCEPT !.stack = rest,
                       !.exits = @ \cup {ExitRecord(f, rest, val)}]
    IN  IF rest = <<>>
        THEN [y EXCEPT !.result = IF val THEN "true" ELSE "false"]
        ELSE RunFrame(y)

\* The procedure without its catch: the exception leaves the invocation,
\* rejects the page-level promise, or reaches the catch around the child in
\* the caller.
Uncaught(x) ==
    LET rest == SubSeq(x.stack, 1, Len(x.stack) - 1)
    IN  IF rest = <<>>
        THEN [x EXCEPT !.stack = rest, !.result = "rejected"]
        ELSE RunFrame([x EXCEPT !.stack = rest])

\* A catch that forgets the progress bar.
CaughtNoTick(x) == Return(SetTop(x, [Top(x) EXCEPT !.threw = TRUE]), FALSE)

\* Lines 179-182: the catch of the whole procedure.
Caught(x) == Return(Tick(SetTop(x, [Top(x) EXCEPT !.threw = TRUE])), FALSE)

\* unpublishAndDeleteEntry(entry) called with the callers x.stack.
Invoke(x, e) ==
    LET y == [x EXCEPT !.stack = Append(@, NewFrame(e))]
    IN  IF Eligible(e) THEN RunFrame(y) ELSE Return(Tick(y), FALSE)

\* A child fetch with no try around it: the exception reaches the catch of
\* the whole procedure.
FetchedOuterCatch(x, ok) ==
    LET f == Top(x)
        child == Children(f.id, f.field)[f.idx]
    IN  IF ok THEN Invoke(x, child)
        ELSE Caught(SetTop(x, [f EXCEPT !.failedChildren = @ + 1]))

\* getEntry answered: the child is handed to the procedure, or the
\* exception is logged by the catch around this child.
Fetched(x, ok) ==
    LET f == Top(x)
        child == Children(f.id, f.field)[f.idx]
    IN  IF ok THEN Invoke(x, child)
        ELSE RunFrame(SetTop(x, [f EXCEPT !.failedChildren = @ + 1]))

\* entry.delete() answered: lines 174-175, or the exception.
Deleted(x, ok) == IF ok THEN Return(Tick(x), TRUE) ELSE Caught(x)


\* ------------------------------------- unpublishAndDeleteContentType --
\* A procedure that goes straight to the delete call.
StartTypeDeleteOnly(t) ==
    [id |-> t, published |-> t \in publishedTypes, call |-> "delete",
     unpublished |-> FALSE, deleted |-> TRUE, ticks |-> 0]

\* The procedure on a listed content type, up to its first await: the
\* unpublish of a published type, the delete of any other.
StartType(t) ==
    LET pub == t \in publishedTypes
    IN  [id |-> t, published |-> pub,
         call |-> IF pub THEN "unpublish" ELSE "delete",
         unpublished |-> pub, deleted |-> ~pub, ticks |-> 0]

\* Lines 224-229: catch, then finally.
SettleType(q) == [q EXCEPT !.call = "none", !.ticks = @ + 1]

\* contentType.unpublish() answered: on to line 223, or the exception.
Unpublished(q, ok) ==
    IF ok THEN [q EXCEPT !.call = "delete", !.deleted = TRUE]
    ELSE SettleType(q)

\* ---------------------------------------------------------------- main --
\* A prompt whose answer is not looked at.
AnsweredAnyway(a, next) == next

\* Lines 84-87 and 91-94: a declined prompt returns.
Answered(a, next) == IF a THEN next ELSE "returned"

\* Lines 90-96, reached when deleteEntries has returned.
AfterEntries ==
    IF argv.isContentTypes
    THEN (IF ~argv.yes THEN "promptContentTypes" ELSE "deleteContentTypes")
    ELSE "returned"

\* A loop that goes on until offset has passed the total.
LoopUntilOffsetPastTotal(total) == offset <= total

\* Line 146.
LoopAgain(total) == total > argv.batchSize

\* The offset advanced by the whole page, whatever was deleted.
NextOffsetFullPage(limit, results) == Min(offset + limit, Cardinality(Ids))

\* Line 145.  Every skip of at least the number of entries the run started
\* with lists the same empty page, so the offset is kept up to that number.
NextOffset(limit, results) ==
    Min(offset + limit - CountTrue(results), Cardinality(Ids))

\* Promise.all: rejects with the first promise that rejects.
\* A wait that ends with the first procedure that settles.
AnySettled(ps) == ps = <<>> \/ \E i \in 1..Len(ps) : ps[i].result # "pending"

AllSettled(ps) == \A i \in 1..Len(ps) : ps[i].result # "pending"
SomeRejected(ps) == \E i \in 1..Len(ps) : ps[i].result = "rejected"

\* ---------------------------------------------------------------- Init --
Edges(ids) == {e \in ids \X ids \X {1, 2} : e[1] # e[2]}

RECURSIVE ReachIn(_, _, _)
\* The entries reached from those of S by 1..k references of E.
ReachIn(E, S, k) ==
    IF k = 0 THEN {}
    ELSE LET step == {e[2] : e \in {x \in E : x[1] \in S}}
         IN  step \cup ReachIn(E, step, k - 1)

Acyclic(E) == \A e \in E : e[1] \notin ReachIn(E, {e[1]}, Cardinality(E))

ChildrenIn(E, p, field) ==
    SortedSeq({e[2] : e \in {x \in E : x[1] = p /\ x[3] = field}})

StateIn(P, e) ==
    IF \E x \in P : x[1] = e
    THEN (CHOOSE x \in P : x[1] = e)[2]
    ELSE "draft"

\* The deviations that are switches: a backend that may fail, no --yes,
\* --content-types, and a remove list file that names no entry.
Switches == {"flaky", "prompt", "content-types", "empty-removelist", "env"}

\* The state main() starts in: n entries with the references E and the
\* publish states P, the list files ig and rm, the switches sw, the
\* --content-type scope (0: none) and the content types never published.
Input(n, b, E, P, ig, rm, sw, scope, drafts) ==
    /\ argv = [batchSize |-> b,
               env |-> IF "env" \in sw THEN "staging" ELSE "master",
               contentType |-> scope,
               isContentTypes |-> "content-types" \in sw,
               yes |-> "prompt" \notin sw,
               ignorelist |-> [given |-> ig # {}, ids |-> ig],
               removelist |-> [given |-> rm # {} \/ "empty-removelist" \in sw,
                               ids |-> rm]]
    /\ entryOf = [e \in 1..n |->
                    [state |-> StateIn(P, e),
                     contentType |-> ((e - 1) % MaxSchemas) + 1,
                     seriesList |-> ChildrenIn(E, e, 1),
                     episodeList |-> ChildrenIn(E, e, 2)]]
    /\ flaky = ("flaky" \in sw)
    /\ liveEntries = [i \in 1..n |-> i]
    /\ liveContentTypes =
          [i \in 1..(IF "env" \in sw THEN 2 * MaxSchemas ELSE MaxSchemas) |-> i]
    /\ publishedTypes = Range(liveContentTypes) \ drafts
    /\ pc = IF "prompt" \in sw THEN "promptEntries" ELSE "deleteEntries"
    /\ offset = 0
    /\ totalEntries = 0
    /\ promises = <<>>
    /\ totalContentTypes = 0
    /\ typePromises = <<>>
    /\ deleteCalls = [e \in 1..n |-> 0]
    /\ handed = [e \in 1..n |-> 0]
    /\ exits = {}
    /\ typeExits = {}
    /\ declined = "none"
    /\ destructive = {}

\* The inputs with at most MaxDeviations deviations from the plain run.
\* --env and content types never published bear on the content type pass
\* only, and are varied with --content-types only; relation fields bear on
\* the entry pass only, and are varied without --content-types.
Init ==
    \E n \in 0..MaxEntries, b \in 1..MaxBatch :
    \E E \in {X \in SubsetsUpTo(Edges(1..n), MaxDeviations) : Acyclic(X)} :
    \E P \in {X \in SubsetsUpTo((1..n) \X {"published", "changed"},
                                MaxDeviations - Cardinality(E)) :
                  \A x, y \in X : x[1] = y[1] => x = y} :
    \E ig \in SubsetsUpTo(1..n, MaxDeviations - Cardinality(E) - Cardinality(P)) :
    \E rm \in SubsetsUpTo(1..n, MaxDeviations - Cardinality(E) - Cardinality(P)
                                - Cardinality(ig)) :
    \E sw \in {X \in SubsetsUpTo(Switches, MaxDeviations - Cardinality(E)
                          - Cardinality(P) - Cardinality(ig) - Cardinality(rm)) :
                  /\ "env" \in X => "content-types" \in X
                  /\ "content-types" \in X => E = {}} :
    \E scope \in {t \in 0..MaxSchemas :
                    t # 0 => Cardinality(E) + Cardinality(P) + Cardinality(ig)
                             + Cardinality(rm) + Cardinality(sw) < MaxDeviations} :
    \E drafts \in SubsetsUpTo(SchemaIds,
                    IF "content-types" \notin sw THEN 0 ELSE
                    MaxDeviations - Cardinality(E) - Cardinality(P)
                    - Cardinality(ig) - Cardinality(rm) - Cardinality(sw)
                    - (IF scope = 0 THEN 0 ELSE 1)) :
        Input(n, b, E, P, ig, rm, sw, scope, drafts)

\* The plain runs of the pagination scenarios: draft entries without
\* relation fields, no list file, a backend that answers, --yes.
InitPaging ==
    \E n \in 0..MaxPagingEntries, b \in 1..MaxPagingBatch :
        Input(n, b, {}, {}, {}, {}, {}, 0, {})

\* ------------------------------------------------------------- actions --
\* Lines 84-86.
PromptForEntriesConfirmation ==
    /\ pc = "promptEntries"
    /\ \E a \in BOOLEAN :
        /\ pc' = Answered(a, "deleteEntries")
        /\ declined' = IF a THEN declined ELSE "entries"
    /\ UNCHANGED <<inputs, liveEntries, liveContentTypes, publishedTypes,
                   entryLoop, typeLoop, entryHistory, typeExits, destructive>>

\* Lines 118-129: the count listing, and let offset = 0.
DeleteEntries ==
    /\ pc = "deleteEntries"
    /\ totalEntries' = Len(Scoped)
    /\ offset' = 0
    /\ pc' = "getEntries"
    /\ UNCHANGED <<inputs, liveEntries, liveContentTypes, publishedTypes,
                   promises, typeLoop, entryHistory, typeExits, declined,
                   destructive>>

\* What the synchronous code of a step did is added to the history.
Record(runs) ==
    /\ deleteCalls' =
         [e \in Ids |->
            deleteCalls[e]
            + Cardinality({i \in 1..Len(runs) : e \in Range(runs[i].calls)})]
    /\ exits' = exits \cup UNION {runs[i].exits : i \in 1..Len(runs)}
    /\ destructive' =
         IF \E i \in 1..Len(runs) : runs[i].calls # <<>>
         THEN destructive \cup {"entry"} ELSE destructive

Promise(x) == [stack |-> x.stack, result |-> x.result]
Resume(p) == [NewRun EXCEPT !.stack = p.stack]

\* Lines 131-143: the page is answered and each item that passes the
\* filter is handed to unpublishAndDeleteEntry, which runs to its first
\* await.
GetEntries ==
    /\ pc = "getEntries"
    /\ LET items == SelectSeq(Page(Scoped, offset, argv.batchSize), Filter)
           runs == [i \in 1..Len(items) |-> Invoke(NewRun, items[i])]
       IN  /\ totalEntries' = Len(Scoped)
           /\ promises' = [i \in 1..Len(items) |-> Promise(runs[i])]
           /\ handed' = [e \in Ids |->
                           handed[e] + IF e \in Range(items) THEN 1 ELSE 0]
           /\ Record(runs)
    /\ pc' = "awaitEntries"
    /\ UNCHANGED <<inputs, liveEntries, liveContentTypes, publishedTypes,
                   offset, typeLoop, typeExits, declined>>

\* Lines 155 and 165: the backend answers a getEntry.
GetEntryAnswered(i) ==
    /\ promises[i].result = "pending"
    /\ Top(promises[i]).call = "getEntry"
    /\ LET f == Top(promises[i])
       IN  \E ok \in Answers(Children(f.id, f.field)[f.idx]) :
             LET x == Fetched(Resume(promises[i]), ok)
             IN  /\ promises' = [promises EXCEPT ![i] = Promise(x)]
                 /\ Record(<<x>>)
    /\ UNCHANGED <<inputs, liveEntries, liveContentTypes, publishedTypes, pc,
                   offset, totalEntries, typeLoop, handed, typeExits, declined>>

\* Line 173: the backend answers an entry.delete().
DeleteAnswered(i) ==
    /\ promises[i].result = "pending"
    /\ Top(promises[i]).call = "delete"
    /\ LET e == Top(promises[i]).id
       IN  \E ok \in Answers(e) :
             LET x == Deleted(Resume(promises[i]), ok)
             IN  /\ liveEntries' = IF ok THEN Without(liveEntries, e)
                                   ELSE liveEntries
                 /\ promises' = [promises EXCEPT ![i] = Promise(x)]
                 /\ Record(<<x>>)
    /\ UNCHANGED <<inputs, liveContentTypes, publishedTypes, pc, offset,
                   totalEntries, typeLoop, handed, typeExits, declined>>

\* Lines 144-146, and lines 90-96 when the loop ends.
AwaitEntries ==
    /\ pc = "awaitEntries"
    /\ AllSettled(promises) \/ SomeRejected(promises)
    /\ IF SomeRejected(promises)
       THEN /\ pc' = "rejected"
            /\ UNCHANGED <<offset, promises>>
       ELSE /\ offset' = NextOffset(argv.batchSize,
                           [i \in 1..Len(promises) |-> promises[i].result = "true"])
            /\ promises' = <<>>
            /\ pc' = IF LoopAgain(totalEntries) THEN "getEntries"
                     ELSE AfterEntries
    /\ UNCHANGED <<inputs, liveEntries, liveContentTypes, publishedTypes,
                   totalEntries, typeLoop, entryHistory, typeExits, declined,
                   destructive>>

\* Lines 91-93.
PromptForContentTypesConfirmation ==
    /\ pc = "promptContentTypes"
    /\ \E a \in BOOLEAN :
        /\ pc' = Answered(a, "deleteContentTypes")
        /\ declined' = IF a THEN declined ELSE "contentTypes"
    /\ UNCHANGED <<inputs, liveEntries, liveContentTypes, publishedTypes,
                   entryLoop, typeLoop, entryHistory, typeExits, destructive>>

\* Lines 188-197: the count listing.
DeleteContentTypes ==
    /\ pc = "deleteContentTypes"
    /\ totalContentTypes' = Len(SelectedEnvironmentContentTypes)
    /\ pc' = "getContentTypes"
    /\ UNCHANGED <<inputs, liveEntries, liveContentTypes, publishedTypes,
                   entryLoop, typePromises, entryHistory, typeExits, declined,
                   destructive>>

\* Lines 199-209: the first batchSize content types are listed (the loop
\* has no skip) and each is handed to unpublishAndDeleteContentType.
GetContentTypes ==
    /\ pc = "getContentTypes"
    /\ LET items == Page(SpaceContentTypes, 0, argv.batchSize)
       IN  /\ totalContentTypes' = Len(SpaceContentTypes)
           /\ typePromises' = [i \in 1..Len(items) |-> StartType(items[i])]
           /\ destructive' = IF items # <<>>
                             THEN destructive \cup {"contentType"}
                             ELSE destructive
    /\ pc' = "awaitContentTypes"
    /\ UNCHANGED <<inputs, liveEntries, liveContentTypes, publishedTypes,
                   entryLoop, entryHistory, typeExits, declined>>

\* Line 219: the backend answers a contentType.unpublish().
UnpublishAnswered(i) ==
    /\ typePromises[i].call = "unpublish"
    /\ LET q == typePromises[i]
       IN  \E ok \in TypeAnswers(q.id) :
             /\ publishedTypes' = IF ok THEN publishedTypes \ {q.id}
                                  ELSE publishedTypes
             /\ typePromises' = [typePromises EXCEPT ![i] = Unpublished(q, ok)]
             /\ typeExits' = IF ok THEN typeExits
                             ELSE typeExits \cup {Unpublished(q, ok)}
    /\ UNCHANGED <<inputs, liveEntries, liveContentTypes, pc, entryLoop,
                   totalContentTypes, entryHistory, declined, destructive>>

\* Line 223: the backend answers a contentType.delete().
TypeDeleteAnswered(i) ==
    /\ typePromises[i].call = "delete"
    /\ LET q == typePromises[i]
       IN  \E ok \in TypeAnswers(q.id) :
             /\ liveContentTypes' = IF ok THEN Without(liveContentTypes, q.id)
                                    ELSE liveContentTypes
             /\ publishedTypes' = IF ok THEN publishedTypes \ {q.id}
                                  ELSE publishedTypes
             /\ typePromises' = [typePromises EXCEPT ![i] = SettleType(q)]
             /\ typeExits' = typeExits \cup {SettleType(q)}
    /\ UNCHANGED <<inputs, liveEntries, pc, entryLoop, totalContentTypes,
                   entryHistory, declined, destructive>>

\* Lines 210-211.
AwaitContentTypes ==
    /\ pc = "awaitContentTypes"
    /\ \A i \in 1..Len(typePromises) : typePromises[i].call = "none"
    /\ typePromises' = <<>>
    /\ pc' = IF LoopAgain(totalContentTypes) THEN "getContentTypes"
             ELSE "returned"
    /\ UNCHANGED <<inputs, liveEntries, liveContentTypes, publishedTypes,
                   entryLoop, totalContentTypes, entryHistory, typeExits,
                   declined, destructive>>

Next ==
    \/ PromptForEntriesConfirmation
    \/ DeleteEntries
    \/ GetEntries
    \/ \E i \in DOMAIN promises : GetEntryAnswered(i)
    \/ \E i \in DOMAIN promises : DeleteAnswered(i)
    \/ AwaitEntries
    \/ PromptForContentTypesConfirmation
    \/ DeleteContentTypes
    \/ GetContentTypes
    \/ \E i \in DOMAIN typePromises : UnpublishAnswered(i)
    \/ \E i \in DOMAIN typePromises : TypeDeleteAnswered(i)
    \/ AwaitContentTypes

Spec == Init /\ [][Next]_vars

\* Every remote call is answered and the event loop runs every continuation
\* that is ready.
FairSpec == Spec /\ WF_vars(Next)

\* deleteEntries on the plain runs: no prompt, no relation field to fetch,
\* no content type pass.
NextPaging ==
    \/ DeleteEntries
    \/ GetEntries
    \/ \E i \in DOMAIN promises : DeleteAnswered(i)
    \/ AwaitEntries

PagingSpec == InitPaging /\ [][NextPaging]_vars

\* -------------------------------------------------------------- claims --
\* deleteEntries has returned to main.
EntriesReturned ==
    /\ pc \in {"promptContentTypes", "deleteContentTypes", "getContentTypes",
               "awaitContentTypes", "returned"}
    /\ declined # "entries"

\* The entry is in the scope of --content-type.
InScope(e) == argv.contentType = 0 \/ entryOf[e].contentType = argv.contentType

NoFilter == ~argv.ignorelist.given /\ ~argv.removelist.given

NumChildren(e) == Len(entryOf[e].seriesList) + Len(entryOf[e].episodeList)

\* C1: every entry that exists when deleteEntries starts and passes the
\* filter is handed to the page-level procedure exactly once: never a
\* second time, and never skipped by the moving offset.  Stated for the
\* entries that still exist when deleteEntries returns: an entry a parent
\* deleted as its child before its page was listed is not counted as
\* skipped; and for the runs without a list file and without a call that
\* fails on an existing entry, where the filter and the failures play no
\* part.
C1_EachEntryHandedOnce ==
    /\ \A e \in Ids : handed[e] <= 1
    /\ EntriesReturned /\ NoFilter /\ ~flaky =>
         \A e \in Ids :
            InScope(e) /\ Filter(e) /\ e \in Range(liveEntries) => handed[e] = 1

\* The plain run of C2: no filter, no relation field, drafts only, no
\* failing call.
PlainRun ==
    /\ NoFilter /\ ~flaky /\ argv.contentType = 0
    /\ \A e \in Ids : entryOf[e].state = "draft" /\ NumChildren(e) = 0

RECURSIVE SumOver(_, _)
SumOver(f, S) ==
    IF S = {} THEN 0
    ELSE LET e == CHOOSE x \in S : TRUE IN f[e] + SumOver(f, S \ {e})

\* C2: in the plain run deleteEntries issues exactly one delete call per
\* entry, N in all, in pages of batchSize and a last page of the rest, and
\* returns: no entry gets a second call, every page that is listed holds
\* min(batchSize, entries left) entries, and when deleteEntries has returned
\* every entry has had its call and is gone.
C2_PagingDrift ==
    PlainRun =>
      /\ \A e \in Ids : deleteCalls[e] <= 1
      /\ pc = "awaitEntries" =>
           Len(promises) = Min(argv.batchSize,
                               Cardinality(Ids) - SumOver(handed, Ids)
                               + Len(promises))
      /\ pc = "getEntries" /\ liveEntries = <<>> => Ids = {}
      /\ EntriesReturned =>
           /\ \A e \in Ids : deleteCalls[e] = 1
           /\ liveEntries = <<>>

\* C2 witness: the 12 entries of the pagination drift scenario have been
\* deleted in pages of 5, 5 and 2.
C2_Witness ==
    /\ PlainRun /\ EntriesReturned
    /\ Cardinality(Ids) = 12 /\ argv.batchSize = 5
    /\ SumOver(deleteCalls, Ids) = 12 /\ offset = 3

\* C3: with an ignore list, no entry whose identifier is in the list is
\* ever passed to the delete operation.
C3_IgnoredNeverDeleted ==
    argv.ignorelist.given =>
      \A e \in argv.ignorelist.ids \cap Ids : deleteCalls[e] = 0

\* C4: with a remove list and no ignore list, only entries whose identifier
\* is in the list are passed to the delete operation.
C4_OnlyListedDeleted ==
    argv.removelist.given /\ ~argv.ignorelist.given =>
      \A e \in Ids \ argv.removelist.ids : deleteCalls[e] = 0

C6_DeleteEntriesReturns ==
    (pc = "deleteEntries" /\ NoFilter /\ ~flaky)
        ~> (pc \notin {"deleteEntries", "getEntries", "awaitEntries"})

C8_NoTypeDeleteWhileLiveEntries ==
    \A i \in DOMAIN typePromises :
       typePromises[i].call = "delete" =>
         \A e \in Range(liveEntries) :
            entryOf[e].contentType = typePromises[i].id => ~isPublished(e)

\* C9: without a filter and without a call that fails on an existing
\* entry, every entry the procedure deletes (every draft) gets exactly one
\* delete call over the run: never a second one, and one by the time
\* deleteEntries returns.
C9_ExactlyOneDeleteCall ==
    NoFilter /\ ~flaky /\ argv.contentType = 0 =>
      /\ \A e \in Ids : Eligible(e) => deleteCalls[e] <= 1
      /\ EntriesReturned => \A e \in Ids : Eligible(e) => deleteCalls[e] = 1

\* C10 as claimed: when a confirmation is answered no, no unpublish or
\* delete call has been issued at any point of the run.
C10_DeclinedNothingIssued == declined # "none" => destructive = {}

\* C10 amended: a declined confirmation makes main return; when the entries
\* confirmation is declined no unpublish or delete call has been issued at
\* all, when the content types confirmation is declined none has been
\* issued on a content type (the entry pass has run by then); and each
\* confirmation is asked before the first destructive call of its own pass.
C10_DeclinedPassIssuesNothing ==
    /\ declined # "none" => pc = "returned"
    /\ declined = "entries" \/ pc = "promptEntries" => destructive = {}
    /\ declined = "contentTypes" \/ pc = "promptContentTypes" =>
         "contentType" \notin destructive

\* C10 witness: the content types confirmation was declined after the
\* entry pass had issued its delete calls.
C10_Witness ==
    /\ declined = "contentTypes" /\ pc = "returned"
    /\ "entry" \in destructive

\* C11: every invocation of unpublishAndDeleteEntry, page-level or
\* recursive, ticks the progress bar exactly once on every exit path (entry
\* deleted, entry skipped, exception): an invocation that has returned has
\* ticked once, and one that has not returned has not ticked yet.
C11_OneTickPerInvocation ==
    /\ \A x \in exits : x.ticks = 1
    /\ \A i \in DOMAIN promises :
          \A k \in DOMAIN promises[i].stack : promises[i].stack[k].ticks = 0

\* C11 witness: a parent whose child fetch failed has returned after
\* deleting itself, and an invocation whose own delete call failed has
\* returned, each with its tick.
C11_Witness ==
    /\ \E x \in exits : x.failedChildren > 0 /\ x.result /\ x.ticks = 1
    /\ \E x \in exits : x.threw /\ ~x.result /\ x.ticks = 1

\* The scope of the run holds no entry: the environment is empty, or a
\* content type is selected that no entry has.
EmptyScope == \A e \in Ids : ~InScope(e)

\* C12: on a scope that holds no entry, deleteEntries issues no fetch and no
\* delete call on any entry (no procedure is ever started; the code has no
\* unpublish call on entries at all), and after its single page listing the
\* loop is left: the listing is never issued a second time.
C12_EmptyScopeOnePage ==
    /\ [](EmptyScope =>
            /\ promises = <<>> /\ exits = {}
            /\ \A e \in Ids : deleteCalls[e] = 0
            /\ "entry" \notin destructive)
    /\ [][EmptyScope /\ pc = "awaitEntries" => pc' # "getEntries"]_vars

\* C12 witness: an environment that has an entry, none of the selected
\* content type; deleteEntries has returned after listing the empty page.
C12_Witness ==
    /\ EmptyScope /\ Ids # {} /\ totalEntries = 0
    /\ EntriesReturned
    /\ \A e \in Ids : deleteCalls[e] = 0

\* C13: children before parent, depth-first.  An invocation fetches the
\* children of seriesList first and those of episodeList after them, one at
\* a time; while a child's invocation runs, its caller waits at the fetch of
\* that child; and the invocation's own delete call is issued only when the
\* attempt on every child of both fields has settled.
C13_ChildrenBeforeParent ==
    /\ \A i \in DOMAIN promises :
          \A k \in DOMAIN promises[i].stack :
             LET st == promises[i].stack
                 f == st[k]
             IN  /\ f.fetches = IF f.field = 1 THEN f.idx
                                ELSE Len(entryOf[f.id].seriesList) + f.idx
                 /\ f.deleted =>
                       /\ f.fetches = NumChildren(f.id)
                       /\ f.call = "delete" /\ k = Len(st)
                 /\ k < Len(st) =>
                       /\ f.call = "getEntry" /\ ~f.deleted
                       /\ st[k + 1].id = Children(f.id, f.field)[f.idx]
    /\ \A x \in exits : x.deleted => x.fetches = NumChildren(x.id)

\* C13 witness: a page-level entry with a child in each relation field has
\* issued its delete call after both children were fetched and deleted by
\* their own invocations.
C13_Witness ==
    \E x \in exits :
       /\ x.depth = 0 /\ x.deleted /\ x.fetches = 2
       /\ Len(entryOf[x.id].seriesList) = 1
       /\ Len(entryOf[x.id].episodeList) = 1
       /\ \A c \in Range(entryOf[x.id].seriesList)
                   \cup Range(entryOf[x.id].episodeList) :
             \E y \in exits : y.id = c /\ y.depth = 1 /\ y.deleted /\ y.result

\* The invocations on children of x's entry that returned without
\* deleting the child although they tried (the child's delete call failed).
FailedChildDeletes(x) ==
    {c \in exits : c.parent = x.id /\ c.depth = x.depth + 1 /\ c.threw}

\* C14: best-effort child deletion.  An invocation one of whose children
\* could not be fetched or could not be deleted has still fetched every
\* child of both relation fields and issued its own delete call; it fails
\* only when its own delete call fails, and returns true exactly when that
\* call succeeded.
C14_BestEffortChildren ==
    \A x \in exits :
       /\ (x.failedChildren > 0 \/ FailedChildDeletes(x) # {}) =>
             x.deleted /\ x.fetches = NumChildren(x.id)
       /\ x.threw => x.deleted
       /\ x.result = (x.deleted /\ ~x.threw)

\* C14 witness: the fetch of the seriesList child failed; the episodeList
\* child was fetched and deleted all the same, and then the parent.
C14_Witness ==
    \E x \in exits :
       /\ x.failedChildren = 1 /\ x.fetches = 2 /\ x.deleted /\ x.result
       /\ Len(entryOf[x.id].seriesList) = 1
       /\ \E c \in exits :
             /\ c.id \in Range(entryOf[x.id].episodeList)
             /\ c.parent = x.id /\ c.deleted /\ c.result

\* The other case of C14: a child's delete call failed and the parent was
\* deleted all the same.
C14_ChildDeleteFailed ==
    \E x \in exits : FailedChildDeletes(x) # {} /\ x.deleted /\ x.result

\* C15: an entry in published-and-unmodified state is skipped.  Every
\* invocation on it, page-level or as a child, fetches no child, issues no
\* delete call and returns false; no delete call is ever issued on it (and
\* the code has no unpublish call on entries).
C15_PublishedSkipped ==
    /\ \A x \in exits :
          entryOf[x.id].state = "published" =>
             x.fetches = 0 /\ ~x.deleted /\ ~x.threw /\ ~x.result
    /\ \A e \in Ids : entryOf[e].state = "published" => deleteCalls[e] = 0
    /\ \A i \in DOMAIN promises :
          \A k \in DOMAIN promises[i].stack :
             entryOf[promises[i].stack[k].id].state # "published"

\* C15 witness: a published entry was handed to the procedure by the page
\* loop and also as the child of another entry; both invocations returned
\* false and the entry still exists.
C15_Witness ==
    \E e \in Ids :
       /\ entryOf[e].state = "published"
       /\ \E x \in exits : x.id = e /\ x.depth = 0 /\ ~x.result
       /\ \E x \in exits : x.id = e /\ x.depth = 1 /\ ~x.result
       /\ e \in Range(liveEntries)

\* C16: pages are strictly sequential, for entries (lines 130-146) and for
\* content types (lines 198-211).  The loop leaves the await of a page only
\* when every procedure of that page has returned, so while the listing of
\* the next page is in flight no procedure of an earlier page is.
C16_PagesSequential ==
    /\ [][/\ (pc = "awaitEntries" /\ pc' # pc) =>
                \A i \in DOMAIN promises :
                   /\ promises[i].result \in {"true", "false"}
                   /\ promises[i].stack = <<>>
          /\ (pc = "awaitContentTypes" /\ pc' # pc) =>
                \A i \in DOMAIN typePromises : typePromises[i].call = "none"
         ]_vars
    /\ [](pc \in {"getEntries", "getContentTypes"} =>
             promises = <<>> /\ typePromises = <<>>)

\* C16 witness: the listing of a later page is in flight after a page whose
\* procedure failed on its delete call.
C16_Witness ==
    /\ pc = "getEntries" /\ promises = <<>>
    /\ \E x \in exits : x.depth = 0 /\ x.threw /\ ~x.result

\* The remote calls in flight: the listing of a page, and the one call
\* (getEntry, unpublish or delete) each running procedure awaits; a caller
\* waiting for its child's invocation has no call of its own in flight.
InFlight ==
    (IF pc \in {"getEntries", "getContentTypes"} THEN 1 ELSE 0)
    + Cardinality({i \in DOMAIN promises : promises[i].stack # <<>>})
    + Cardinality({i \in DOMAIN typePromises : typePromises[i].call # "none"})

\* C17: at every moment the number of remote calls in flight is at most
\* batchSize, in the entry pass and in the content type pass.
C17_BoundedConcurrency ==
    /\ InFlight <= argv.batchSize
    /\ Len(promises) <= argv.batchSize
    /\ Len(typePromises) <= argv.batchSize
    /\ \A i \in DOMAIN promises :
          promises[i].stack # <<>> =>
             Top(promises[i]).call \in {"getEntry", "delete"}

\* C17 witness: batchSize 2 and two calls in flight, one of them issued by a
\* recursive invocation on a child.
C17_Witness ==
    /\ argv.batchSize = 2 /\ InFlight = 2
    /\ \E i \in DOMAIN promises : Len(promises[i].stack) = 2

\* C18: deleteContentTypes eventually returns, also when the unpublish or
\* the delete of some content types fails on every attempt.  Stated for
\* runs on the master environment.
C18_DeleteContentTypesReturns ==
    (pc = "deleteContentTypes" /\ argv.env = "master") ~> (pc = "returned")

\* C19: unpublishAndDeleteContentType issues the unpublish call exactly for
\* a content type that is published, and the delete call only once that
\* unpublish has settled; it ticks the progress bar exactly once when it
\* ends, by success or by failure; and a failure stays inside it: the page
\* loop keeps waiting for the other procedures and nothing is rejected.
C19_ContentTypeProcedure ==
    /\ \A i \in DOMAIN typePromises :
          LET q == typePromises[i]
          IN  /\ q.unpublished = q.published
              /\ q.call = "unpublish" => ~q.deleted
              /\ q.call = "delete" => q.deleted
              /\ q.ticks = IF q.call = "none" THEN 1 ELSE 0
    /\ \A q \in typeExits :
          q.unpublished = q.published /\ q.ticks = 1 /\ q.call = "none"
    /\ typePromises # <<>> => pc = "awaitContentTypes"
    /\ argv.isContentTypes => pc # "rejected"

\* C19 witness: a published content type was unpublished and its delete
\* call answered, and the unpublish of another one failed, so that it got
\* no delete call; each procedure ticked once.
C19_Witness ==
    /\ \E q \in typeExits : q.published /\ q.unpublished /\ q.deleted
    /\ \E q \in typeExits : q.published /\ q.unpublished /\ ~q.deleted

\* C20: every content type handed to unpublishAndDeleteContentType, and so
\* every content type an unpublish or delete call is issued on, belongs to
\* the environment selected by --env, the one the count query read.
C20_SelectedEnvironmentOnly ==
    /\ \A i \in DOMAIN typePromises : EnvOf(typePromises[i].id) = argv.env
    /\ \A q \in typeExits : EnvOf(q.id) = argv.env

=============================================================================
